---- MODULE Spec2Model ----
(***************************************************************************)
(* Model of the Result type of the "Result Pattern" exercise               *)
(* (src/error-handling/03-result-pattern/HINTS.md, good.ts listing):       *)
(* the classes Ok and Err, the helpers ok / err, and the free functions    *)
(* processResult and combineResults.                                       *)
(*                                                                         *)
(* Objects live in a heap (a sequence, a reference is an index), so that   *)
(* "return this" and "new Ok(...)" are different outcomes.  A method call  *)
(* yields an outcome: the heap after the call, how the call completed      *)
(* (return or throw), what it returned or threw, and the callback          *)
(* invocations it made, in order.                                          *)
(*                                                                         *)
(* The asynchronous functions built on the type (fetchUser, fetchPosts,    *)
(* getUserProfile, getUserProfileAlternative) and the getUserProfile of    *)
(* the listing before the refactoring (bad.ts) are modelled as calls in    *)
(* flight: a call runs from one await to the next in one step, and the     *)
(* steps of concurrent calls interleave on the one heap.                   *)
(***************************************************************************)
EXTENDS Integers, Sequences, FiniteSets, TLC

VARIABLES heap, cur, trace, procs

vars == <<heap, cur, trace, procs>>

----------------------------------------------------------------------------
(* Bounds *)

MaxChain == 3         \* calls the program makes after its first construction
MaxVal == 1           \* success payloads given to ok(): 0..MaxVal
NProcs == 2           \* asynchronous calls that can be in flight at once

Values == 0..MaxVal
Errors == {"error", "e2"}
Defaults == {42}

----------------------------------------------------------------------------
(* Callbacks handed to the combinators.  A callback is named; calling it   *)
(* is computing what its body computes.                                    *)

MapFns == {"ident", "double", "add3"}

\* the callback x => g(f(x)), named after f and g
Compose(f, g) == f \o ";" \o g

RECURSIVE CallFn(_, _)
CallFn(fn, x) ==
  CASE fn = "ident"  -> x
    [] fn = "double" -> x * 2
    [] fn = "add3"   -> x + 3
    [] OTHER -> LET p == CHOOSE p \in MapFns \X MapFns : Compose(p[1], p[2]) = fn
                IN  CallFn(p[2], CallFn(p[1], x))

MapErrFns == {"identE", "prefix"}

CallErrFn(fn, e) ==
  CASE fn = "identE" -> e
    [] fn = "prefix" -> "Error: " \o e

----------------------------------------------------------------------------
(* Classes *)

Ok(value) == [cls |-> "Ok", value |-> value]

Err(error) == [cls |-> "Err", error |-> error]

\* "new C(...)": the object is appended to the heap, the reference is its index
New(h, obj) == [heap |-> Append(h, obj), ref |-> Len(h) + 1]

Return(h, x, calls) == [heap |-> h, done |-> "return", ret |-> x, calls |-> calls]

Throw(h, e, calls) == [heap |-> h, done |-> "throw", thrown |-> e, calls |-> calls]

Invoke(fn, arg) == [fn |-> fn, arg |-> arg]

ok(h, value) ==
  LET n == New(h, Ok(value)) IN Return(n.heap, n.ref, <<>>)

err(h, error) ==
  LET n == New(h, Err(error)) IN Return(n.heap, n.ref, <<>>)

----------------------------------------------------------------------------
(* Callbacks that return a Result *)

\* "theFirst" is a closure over the program's first Result: x => first
FlatMapFns == {"okSame", "okAdd3", "errOccurred", "halve", "theFirst"}

CallFlatFn(h, fn, x) ==
  CASE fn = "okSame"      -> ok(h, x)
    [] fn = "theFirst"    -> Return(h, 1, <<>>)
    [] fn = "okAdd3"      -> ok(h, x + 3)
    [] fn = "errOccurred" -> err(h, "error occurred")
    [] fn = "halve"       -> IF x % 2 = 0 THEN ok(h, x \div 2) ELSE err(h, "odd")

CatchFns == {"okLength", "errRecovered"}

CallCatchFn(h, fn, e) ==
  CASE fn = "okLength"     -> ok(h, Len(e))
    [] fn = "errRecovered" -> err(h, "Recovered from: " \o e)

----------------------------------------------------------------------------
(* class Ok *)

\* Ok.map with the callback given as a function: fn names it, F[x] is what
\* it returns on x
Ok_mapWith(h, this, fn, F) ==
  LET n == New(h, Ok(F[h[this].value]))
  IN  Return(n.heap, n.ref, <<Invoke(fn, h[this].value)>>)

\* variant: the function is applied a second time to build the result
Ok_map_CallsTwice(h, this, fn) ==
  LET n == New(h, Ok(CallFn(fn, CallFn(fn, h[this].value))))
  IN  Return(n.heap, n.ref, <<Invoke(fn, h[this].value),
                              Invoke(fn, CallFn(fn, h[this].value))>>)

\* variant: the receiver, not fn's result, is wrapped
Ok_map_WrapsThis(h, this, fn) ==
  LET n == New(h, Ok(this))
  IN  Return(n.heap, n.ref, <<Invoke(fn, h[this].value)>>)

Ok_map(h, this, fn) ==
  Ok_mapWith(h, this, fn, [x \in {h[this].value} |-> CallFn(fn, x)])

\* Ok.flatMap with the callback given as a function: F[x] is the outcome of
\* the callback called on x in heap h, the calls it made itself included
Ok_flatMapWith(h, this, fn, F) ==
  LET r == F[h[this].value]
  IN  Return(r.heap, r.ret, <<Invoke(fn, h[this].value)>> \o r.calls)

\* variant: what fn returned is wrapped in a new Ok
Ok_flatMap_Rewraps(h, this, fn) ==
  LET r == CallFlatFn(h, fn, h[this].value)
      n == New(r.heap, Ok(r.ret))
  IN  Return(n.heap, n.ref, <<Invoke(fn, h[this].value)>>)

\* variant: fn is given the receiver, not its value
Ok_flatMap_PassesThis(h, this, fn) ==
  LET r == CallFlatFn(h, fn, this)
  IN  Return(r.heap, r.ret, <<Invoke(fn, this)>>)

\* variant: fn is evaluated twice, the second result is returned
Ok_flatMap_CallsTwice(h, this, fn) ==
  LET r1 == CallFlatFn(h, fn, h[this].value)
      r2 == CallFlatFn(r1.heap, fn, h[this].value)
  IN  Return(r2.heap, r2.ret, <<Invoke(fn, h[this].value), Invoke(fn, h[this].value)>>)

Ok_flatMap(h, this, fn) ==
  Ok_flatMapWith(h, this, fn, [x \in {h[this].value} |-> CallFlatFn(h, fn, x)])

\* variant: fn is called on the value before this is returned
Ok_mapErr_CallsFn(h, this, fn) == Return(h, this, <<Invoke(fn, h[this].value)>>)

Ok_mapErr(h, this, fn) == Return(h, this, <<>>)

\* variant: a copy of the Ok is returned
Ok_catch_Copies(h, this, fn) ==
  LET n == New(h, Ok(h[this].value)) IN Return(n.heap, n.ref, <<>>)

Ok_catch(h, this, fn) == Return(h, this, <<>>)

\* variant: throws the value
Ok_unwrap_Throws(h, this) == Throw(h, h[this].value, <<>>)

Ok_unwrap(h, this) == Return(h, h[this].value, <<>>)

\* variant: the default wins
Ok_getOrElse_ReturnsDefault(h, this, defaultValue) == Return(h, defaultValue, <<>>)

Ok_getOrElse(h, this, defaultValue) == Return(h, h[this].value, <<>>)

Ok_isOk(h, this) == Return(h, TRUE, <<>>)

Ok_isErr(h, this) == Return(h, FALSE, <<>>)

(* class Err *)

\* variant: fn is called on the error before this is returned
Err_map_CallsFn(h, this, fn) == Return(h, this, <<Invoke(fn, h[this].error)>>)

Err_map(h, this, fn) == Return(h, this, <<>>)

\* variant: the step runs although the receiver is an Err
Err_flatMap_CallsFn(h, this, fn) ==
  LET r == CallFlatFn(h, fn, 0)
  IN  Return(r.heap, r.ret, <<Invoke(fn, 0)>>)

\* variant: a copy of the Err is returned
Err_flatMap_Copies(h, this, fn) ==
  LET n == New(h, Err(h[this].error)) IN Return(n.heap, n.ref, <<>>)

Err_flatMap(h, this, fn) == Return(h, this, <<>>)

\* variant: the error is left as it is
Err_mapErr_ReturnsThis(h, this, fn) == Return(h, this, <<>>)

\* variant: the error is replaced inside the receiver
Err_mapErr_InPlace(h, this, fn) ==
  Return([h EXCEPT ![this] = Err(CallErrFn(fn, h[this].error))], this,
         <<Invoke(fn, h[this].error)>>)

Err_mapErr(h, this, fn) ==
  LET n == New(h, Err(CallErrFn(fn, h[this].error)))
  IN  Return(n.heap, n.ref, <<Invoke(fn, h[this].error)>>)

\* variant: the handler is not consulted
Err_catch_ReturnsThis(h, this, fn) == Return(h, this, <<>>)

Err_catch(h, this, fn) ==
  LET r == CallCatchFn(h, fn, h[this].error)
  IN  Return(r.heap, r.ret, <<Invoke(fn, h[this].error)>>)

\* variant: the error is returned, not thrown
Err_unwrap_Returns(h, this) == Return(h, h[this].error, <<>>)

Err_unwrap(h, this) == Throw(h, h[this].error, <<>>)

\* variant: there is nothing to get, so the error is thrown
Err_getOrElse_Throws(h, this, defaultValue) == Throw(h, h[this].error, <<>>)

Err_getOrElse(h, this, defaultValue) == Return(h, defaultValue, <<>>)

\* variant: an Err answers true to isOk
Err_isOk_True(h, this) == Return(h, TRUE, <<>>)

Err_isOk(h, this) == Return(h, FALSE, <<>>)

\* variant: an Err denies being one
Err_isErr_False(h, this) == Return(h, FALSE, <<>>)

Err_isErr(h, this) == Return(h, TRUE, <<>>)

----------------------------------------------------------------------------
(* Method dispatch on the receiver's class *)

IsInstance(h, r, c) == h[r].cls = c

map(h, r, fn) ==
  IF IsInstance(h, r, "Ok") THEN Ok_map(h, r, fn) ELSE Err_map(h, r, fn)

flatMap(h, r, fn) ==
  IF IsInstance(h, r, "Ok") THEN Ok_flatMap(h, r, fn) ELSE Err_flatMap(h, r, fn)

\* what a callback passed to a method of r can be called on
Payloads(h, r) == IF IsInstance(h, r, "Ok") THEN {h[r].value} ELSE {h[r].error}

\* r.map(fn) and r.flatMap(fn) for a callback given as a function
mapWith(h, r, fn, F) ==
  IF IsInstance(h, r, "Ok") THEN Ok_mapWith(h, r, fn, F) ELSE Err_map(h, r, fn)

flatMapWith(h, r, fn, F) ==
  IF IsInstance(h, r, "Ok") THEN Ok_flatMapWith(h, r, fn, F) ELSE Err_flatMap(h, r, fn)

mapErr(h, r, fn) ==
  IF IsInstance(h, r, "Ok") THEN Ok_mapErr(h, r, fn) ELSE Err_mapErr(h, r, fn)

catch(h, r, fn) ==
  IF IsInstance(h, r, "Ok") THEN Ok_catch(h, r, fn) ELSE Err_catch(h, r, fn)

unwrap(h, r) ==
  IF IsInstance(h, r, "Ok") THEN Ok_unwrap(h, r) ELSE Err_unwrap(h, r)

getOrElse(h, r, defaultValue) ==
  IF IsInstance(h, r, "Ok") THEN Ok_getOrElse(h, r, defaultValue)
                            ELSE Err_getOrElse(h, r, defaultValue)

isOk(h, r) ==
  IF IsInstance(h, r, "Ok") THEN Ok_isOk(h, r) ELSE Err_isOk(h, r)

isErr(h, r) ==
  IF IsInstance(h, r, "Ok") THEN Ok_isErr(h, r) ELSE Err_isErr(h, r)

----------------------------------------------------------------------------
(* Free functions *)

\* Handlers handed to processResult, as <<onOk, onErr>>.  "onOk" / "onErr"
\* have block bodies and return nothing; "showValue" / "showError" are
\* expression-bodied and return a string.
HandlerPairs == {<<"onOk", "onErr">>, <<"showValue", "showError">>}

CallHandler(fn, x) ==
  CASE fn = "onOk"      -> "undefined"
    [] fn = "onErr"     -> "undefined"
    [] fn = "showValue" -> "shown value"
    [] fn = "showError" -> "shown error"

\* variant: both handlers are called
processResult_CallsBoth(h, result, onOk, onErr) ==
  IF isOk(h, result).ret
    THEN Return(h, "undefined", <<Invoke(onOk, h[result].value), Invoke(onErr, "undefined")>>)
    ELSE Return(h, "undefined", <<Invoke(onErr, h[result].error), Invoke(onOk, "undefined")>>)

\* variant: what the handler returned is returned
processResult_ReturnsHandlerValue(h, result, onOk, onErr) ==
  IF isOk(h, result).ret
    THEN Return(h, CallHandler(onOk, h[result].value), <<Invoke(onOk, h[result].value)>>)
    ELSE Return(h, CallHandler(onErr, h[result].error), <<Invoke(onErr, h[result].error)>>)

processResult(h, result, onOk, onErr) ==
  IF isOk(h, result).ret
    THEN Return(h, "undefined", <<Invoke(onOk, h[result].value)>>)
    ELSE Return(h, "undefined", <<Invoke(onErr, h[result].error)>>)

\* variant: an Err in second place is not reported
combineResults_IgnoresSecond(h, result1, result2) ==
  IF isErr(h, result1).ret THEN Return(h, result1, <<>>)
  ELSE IF isErr(h, result2).ret THEN Return(h, result1, <<>>)
  ELSE ok(h, <<h[result1].value, h[result2].value>>)

\* variant: the second argument is examined first
combineResults_RightFirst(h, result1, result2) ==
  IF isErr(h, result2).ret THEN Return(h, result2, <<>>)
  ELSE IF isErr(h, result1).ret THEN Return(h, result1, <<>>)
  ELSE ok(h, <<h[result1].value, h[result2].value>>)

combineResults(h, result1, result2) ==
  IF isErr(h, result1).ret THEN Return(h, result1, <<>>)
  ELSE IF isErr(h, result2).ret THEN Return(h, result2, <<>>)
  ELSE ok(h, <<h[result1].value, h[result2].value>>)

----------------------------------------------------------------------------
(* The asynchronous functions of the listing.  Objects and arrays of the   *)
(* program are records; an array carries its length.                       *)

UserIds == {"", "123", "456"}

Array(items) == [length |-> Len(items), items |-> items]

AppError(type, message) == [type |-> type, message |-> message]

\* a call in flight: the function called, its argument, where it stands,
\* its local variables, how it completed, and the calls it made so far
Idle ==
  [fn |-> "none", userId |-> "", pc |-> "idle",
   userResult |-> "undefined", user |-> "undefined",
   postsResult |-> "undefined",
   done |-> "pending", ret |-> "undefined", thrown |-> "undefined",
   log |-> <<>>]

Start(fn, userId) == [Idle EXCEPT !.fn = fn, !.userId = userId, !.pc = "start"]

\* the call completes: its promise is fulfilled with x, or rejected with e
Returned(c, x) == [c EXCEPT !.pc = "done", !.done = "return", !.ret = x]

Thrown(c, e) == [c EXCEPT !.pc = "done", !.done = "throw", !.thrown = e]

Logged(c, calls) == [c EXCEPT !.log = @ \o calls]

\* what one step of a call leaves: the heap and the call
Outcome(h, c) == [heap |-> h, call |-> c]

\* variant: the user fetched by an earlier call is handed out again
fetchUser_Cached(h, userId) ==
  IF userId = ""
    THEN err(h, AppError("ValidationError", "User ID required"))
    ELSE IF \E r \in 1..Len(h) : h[r].cls = "Ok" /\ DOMAIN h[r].value = {"id", "name"}
           THEN Return(h, CHOOSE r \in 1..Len(h) :
                            h[r].cls = "Ok" /\ DOMAIN h[r].value = {"id", "name"}, <<>>)
           ELSE ok(h, [id |-> userId, name |-> "John Doe"])

fetchUser(h, userId) ==
  IF userId = ""
    THEN err(h, AppError("ValidationError", "User ID required"))
    ELSE ok(h, [id |-> userId, name |-> "John Doe"])

\* variant: the list of posts is empty
fetchPosts_Empty(h, userId) ==
  IF userId = ""
    THEN err(h, AppError("ValidationError", "User ID required"))
    ELSE ok(h, Array(<<>>))

fetchPosts(h, userId) ==
  IF userId = ""
    THEN err(h, AppError("ValidationError", "User ID required"))
    ELSE ok(h, Array(<<[id |-> "1", title |-> "First post", content |-> "Content 1"],
                       [id |-> "2", title |-> "Second post", content |-> "Content 2"]>>))

\* the promise fetchPosts(user.id).then(...) returns: pending, it holds the
\* Result fetchPosts resolved with and the user its callback captured
Promise(postsResult, user) ==
  [cls |-> "Promise", postsResult |-> postsResult, user |-> user]

\* the callback of flatMap: (user) => fetchPosts(user.id).then(...)
thenPosts(h, user) ==
  LET p == fetchPosts(h, user.id)
      n == New(p.heap, Promise(p.ret, user))
  IN  Return(n.heap, n.ref, <<Invoke("fetchPosts", user.id)>>)

\* getUserProfile up to its await: fetchUser is called
getUserProfile(h, c) ==
  LET u == fetchUser(h, c.userId)
  IN  Outcome(u.heap, Logged([c EXCEPT !.pc = "awaitUser", !.userResult = u.ret],
                             <<Invoke("fetchUser", c.userId)>>))

\* variant: fetchPosts is started without looking at userResult
getUserProfile_resume_Eager(h, c) ==
  LET out == thenPosts(h, [id |-> c.userId])
  IN  Outcome(out.heap,
              Logged([c EXCEPT !.pc = "awaitThen",
                               !.user = [id |-> c.userId, name |-> "John Doe"],
                               !.postsResult = out.heap[out.ret].postsResult],
                     out.calls))

\* getUserProfile after the await: userResult.flatMap(...) and the return.
\* A promise returned is adopted: the call completes when it settles.
getUserProfile_resume(h, c) ==
  LET out == flatMapWith(h, c.userResult, "user",
                         [user \in Payloads(h, c.userResult) |-> thenPosts(h, user)])
  IN  IF IsInstance(out.heap, out.ret, "Promise")
        THEN Outcome(out.heap,
                     Logged([c EXCEPT !.pc = "awaitThen",
                                      !.user = out.heap[out.ret].user,
                                      !.postsResult = out.heap[out.ret].postsResult],
                            out.calls))
        ELSE Outcome(out.heap, Logged(Returned(c, out.ret), out.calls))

\* the callback of then: postsResult.map(posts => ({...})).mapErr(error => error)
getUserProfile_then(h, c) ==
  LET m == mapWith(h, c.postsResult, "profile",
                   [posts \in Payloads(h, c.postsResult) |->
                      [user |-> c.user, posts |-> posts, postCount |-> posts.length]])
      e == mapErr(m.heap, m.ret, "identE")
  IN  Outcome(e.heap, Logged(Returned(c, e.ret), m.calls \o e.calls))

----------------------------------------------------------------------------
(* getUserProfileAlternative *)

getUserStep(h, userId) == fetchUser(h, userId)

getPostsStep(h, user) == fetchPosts(h, user.id)

buildProfileStep(h, user, posts) ==
  ok(h, [user |-> user, posts |-> posts, postCount |-> posts.length])

\* variant: a profile needs more than two posts
validatePostsStep_MoreThanTwo(h, profile) ==
  IF profile.postCount > 2
    THEN ok(h, profile)
    ELSE err(h, AppError("ValidationError", "No posts"))

validatePostsStep(h, profile) ==
  IF profile.postCount > 0
    THEN ok(h, profile)
    ELSE err(h, AppError("ValidationError", "No posts"))

\* up to the first await: getUserStep()
getUserProfileAlternative(h, c) ==
  LET u == getUserStep(h, c.userId)
  IN  Outcome(u.heap, Logged([c EXCEPT !.pc = "awaitUser", !.userResult = u.ret],
                             <<Invoke("fetchUser", c.userId)>>))

\* from the first await to the second
getUserProfileAlternative_afterUser(h, c) ==
  IF isErr(h, c.userResult).ret
    THEN Outcome(h, Logged(Returned(c, c.userResult),
                           <<Invoke("isErr", c.userResult)>>))
    ELSE LET u == unwrap(h, c.userResult)
             called == <<Invoke("isErr", c.userResult), Invoke("unwrap", c.userResult)>>
         IN  IF u.done = "throw"
               THEN Outcome(h, Logged(Thrown(c, u.thrown), called))
               ELSE LET p == getPostsStep(h, u.ret)
                    IN  Outcome(p.heap,
                                Logged([c EXCEPT !.pc = "awaitPosts", !.user = u.ret,
                                                 !.postsResult = p.ret],
                                       called \o <<Invoke("fetchPosts", u.ret.id)>>))

\* from the second await to the return
getUserProfileAlternative_afterPosts(h, c) ==
  IF isErr(h, c.postsResult).ret
    THEN Outcome(h, Logged(Returned(c, c.postsResult),
                           <<Invoke("isErr", c.postsResult)>>))
    ELSE LET u == unwrap(h, c.postsResult)
             called == <<Invoke("isErr", c.postsResult), Invoke("unwrap", c.postsResult)>>
         IN  IF u.done = "throw"
               THEN Outcome(h, Logged(Thrown(c, u.thrown), called))
               ELSE LET b == buildProfileStep(h, c.user, u.ret)
                        built == called \o <<Invoke("isErr", b.ret)>>
                    IN  IF isErr(b.heap, b.ret).ret
                          THEN Outcome(b.heap, Logged(Returned(c, b.ret), built))
                          ELSE LET w == unwrap(b.heap, b.ret)
                                   unwrapped == built \o <<Invoke("unwrap", b.ret)>>
                               IN  IF w.done = "throw"
                                     THEN Outcome(b.heap, Logged(Thrown(c, w.thrown), unwrapped))
                                     ELSE LET v == validatePostsStep(b.heap, w.ret)
                                          IN  Outcome(v.heap,
                                                      Logged(Returned(c, v.ret), unwrapped))

----------------------------------------------------------------------------
(* The listing before the refactoring (bad.ts): values and errors are      *)
(* returned bare and told apart by isError.                                *)

bad_fetchUser(userId) ==
  IF userId = ""
    THEN AppError("ValidationError", "User ID required")
    ELSE [id |-> userId, name |-> "John Doe"]

\* variant: the list of posts is empty
bad_fetchPosts_Empty(userId) ==
  IF userId = ""
    THEN AppError("ValidationError", "User ID required")
    ELSE Array(<<>>)

bad_fetchPosts(userId) ==
  IF userId = ""
    THEN AppError("ValidationError", "User ID required")
    ELSE Array(<<[id |-> "1", title |-> "First post", content |-> "Content 1"],
                 [id |-> "2", title |-> "Second post", content |-> "Content 2"]>>)

\* typeof value === 'object' && value !== null && 'type' in value
isError(value) == "type" \in DOMAIN value

\* up to the first await
bad_getUserProfile(h, c) ==
  Outcome(h, Logged([c EXCEPT !.pc = "awaitUser", !.userResult = bad_fetchUser(c.userId)],
                    <<Invoke("fetchUser", c.userId)>>))

\* from the first await to the second
bad_getUserProfile_afterUser(h, c) ==
  IF isError(c.userResult)
    THEN Outcome(h, Returned(c, c.userResult))
    ELSE Outcome(h, Logged([c EXCEPT !.pc = "awaitPosts", !.user = c.userResult,
                                     !.postsResult = bad_fetchPosts(c.userResult.id)],
                           <<Invoke("fetchPosts", c.userResult.id)>>))

\* from the second await to the return
bad_getUserProfile_afterPosts(h, c) ==
  IF isError(c.postsResult)
    THEN Outcome(h, Returned(c, c.postsResult))
    ELSE IF c.postsResult.length = 0
           THEN Outcome(h, Returned(c, AppError("ValidationError", "User has no posts")))
           ELSE Outcome(h, Returned(c, [user |-> c.user, posts |-> c.postsResult,
                                        postCount |-> c.postsResult.length]))

\* the next step of call c, whatever function it is a call of
Step(h, c) ==
  CASE c.fn = "getUserProfile" /\ c.pc = "start" -> getUserProfile(h, c)
    [] c.fn = "getUserProfile" /\ c.pc = "awaitUser" -> getUserProfile_resume(h, c)
    [] c.fn = "getUserProfile" /\ c.pc = "awaitThen" -> getUserProfile_then(h, c)
    [] c.fn = "getUserProfileAlternative" /\ c.pc = "start" -> getUserProfileAlternative(h, c)
    [] c.fn = "getUserProfileAlternative" /\ c.pc = "awaitUser" ->
         getUserProfileAlternative_afterUser(h, c)
    [] c.fn = "getUserProfileAlternative" /\ c.pc = "awaitPosts" ->
         getUserProfileAlternative_afterPosts(h, c)
    [] c.fn = "bad.getUserProfile" /\ c.pc = "start" -> bad_getUserProfile(h, c)
    [] c.fn = "bad.getUserProfile" /\ c.pc = "awaitUser" -> bad_getUserProfile_afterUser(h, c)
    [] c.fn = "bad.getUserProfile" /\ c.pc = "awaitPosts" -> bad_getUserProfile_afterPosts(h, c)

Procs == 1..NProcs

----------------------------------------------------------------------------
(* State machine: a program that builds Results and calls the API on them. *)
(* cur is the Result the chain under construction has reached; trace is    *)
(* the record of the calls made so far, the first construction included.   *)

Refs == 1..Len(heap)

Entry(op, this, arg, out) ==
  IF out.done = "return"
    THEN [op |-> op, this |-> this, arg |-> arg, done |-> "return",
          ret |-> out.ret, calls |-> out.calls]
    ELSE [op |-> op, this |-> this, arg |-> arg, done |-> "throw",
          thrown |-> out.thrown, calls |-> out.calls]

\* the program starts by constructing its first Result
First(op, arg, out) ==
  /\ heap = out.heap
  /\ cur = out.ret
  /\ trace = <<Entry(op, 0, arg, out)>>
  /\ procs = [p \in Procs |-> Idle]

Init ==
  \/ \E v \in Values : First("ok", v, ok(<<>>, v))
  \/ \E e \in Errors : First("err", e, err(<<>>, e))

\* a call that returns a Result: the chain goes on from what it returned
Chain(op, this, arg, out) ==
  /\ Len(trace) <= MaxChain
  /\ heap' = out.heap
  /\ cur' = out.ret
  /\ trace' = Append(trace, Entry(op, this, arg, out))
  /\ UNCHANGED procs

\* a call whose result is not a link of the chain
Query(op, this, arg, out) ==
  /\ Len(trace) <= MaxChain
  /\ heap' = out.heap
  /\ cur' = cur
  /\ trace' = Append(trace, Entry(op, this, arg, out))
  /\ UNCHANGED procs

NewOk == \E v \in Values : Chain("ok", 0, v, ok(heap, v))

NewErr == \E e \in Errors : Chain("err", 0, e, err(heap, e))

Map == \E fn \in MapFns : Chain("map", cur, fn, map(heap, cur, fn))

FlatMap == \E fn \in FlatMapFns : Chain("flatMap", cur, fn, flatMap(heap, cur, fn))

MapErr == \E fn \in MapErrFns : Chain("mapErr", cur, fn, mapErr(heap, cur, fn))

Catch == \E fn \in CatchFns : Chain("catch", cur, fn, catch(heap, cur, fn))

Unwrap == Query("unwrap", cur, <<>>, unwrap(heap, cur))

GetOrElse == \E d \in Defaults : Query("getOrElse", cur, d, getOrElse(heap, cur, d))

IsOk == Query("isOk", cur, <<>>, isOk(heap, cur))

IsErr == Query("isErr", cur, <<>>, isErr(heap, cur))

ProcessResult ==
  \E hs \in HandlerPairs :
    Query("processResult", cur, hs, processResult(heap, cur, hs[1], hs[2]))

CombineResults ==
  \E r1, r2 \in Refs :
    Query("combineResults", r1, r2, combineResults(heap, r1, r2))

Next ==
  \/ NewOk
  \/ NewErr
  \/ Map
  \/ FlatMap
  \/ MapErr
  \/ Catch
  \/ Unwrap
  \/ GetOrElse
  \/ IsOk
  \/ IsErr
  \/ ProcessResult
  \/ CombineResults

Spec == Init /\ [][Next]_vars

----------------------------------------------------------------------------
(* State machine of the asynchronous functions: up to NProcs calls are in  *)
(* flight; a step is the start of a call (it runs up to its first await)   *)
(* or the resumption of one call, run up to its next await or its return.  *)

InitAsync ==
  /\ heap = <<>>
  /\ cur = 0
  /\ trace = <<>>
  /\ procs = [p \in Procs |-> Idle]

\* call p takes its step
Advance(p, out) ==
  /\ heap' = out.heap
  /\ procs' = [procs EXCEPT ![p] = out.call]
  /\ UNCHANGED <<cur, trace>>

At(p, fn, pc) == procs[p].fn = fn /\ procs[p].pc = pc

CallGetUserProfile ==
  \E p \in Procs, userId \in UserIds :
    /\ procs[p].pc = "idle"
    /\ Advance(p, getUserProfile(heap, Start("getUserProfile", userId)))

ResumeGetUserProfile ==
  \E p \in Procs :
    /\ At(p, "getUserProfile", "awaitUser")
    /\ Advance(p, getUserProfile_resume(heap, procs[p]))

ThenGetUserProfile ==
  \E p \in Procs :
    /\ At(p, "getUserProfile", "awaitThen")
    /\ Advance(p, getUserProfile_then(heap, procs[p]))

CallGetUserProfileAlternative ==
  \E p \in Procs, userId \in UserIds :
    /\ procs[p].pc = "idle"
    /\ Advance(p, getUserProfileAlternative(heap, Start("getUserProfileAlternative", userId)))

AfterUserGetUserProfileAlternative ==
  \E p \in Procs :
    /\ At(p, "getUserProfileAlternative", "awaitUser")
    /\ Advance(p, getUserProfileAlternative_afterUser(heap, procs[p]))

AfterPostsGetUserProfileAlternative ==
  \E p \in Procs :
    /\ At(p, "getUserProfileAlternative", "awaitPosts")
    /\ Advance(p, getUserProfileAlternative_afterPosts(heap, procs[p]))

CallBadGetUserProfile ==
  \E p \in Procs, userId \in UserIds :
    /\ procs[p].pc = "idle"
    /\ Advance(p, bad_getUserProfile(heap, Start("bad.getUserProfile", userId)))

AfterUserBadGetUserProfile ==
  \E p \in Procs :
    /\ At(p, "bad.getUserProfile", "awaitUser")
    /\ Advance(p, bad_getUserProfile_afterUser(heap, procs[p]))

AfterPostsBadGetUserProfile ==
  \E p \in Procs :
    /\ At(p, "bad.getUserProfile", "awaitPosts")
    /\ Advance(p, bad_getUserProfile_afterPosts(heap, procs[p]))

NextAsync ==
  \/ CallGetUserProfile
  \/ ResumeGetUserProfile
  \/ ThenGetUserProfile
  \/ CallGetUserProfileAlternative
  \/ AfterUserGetUserProfileAlternative
  \/ AfterPostsGetUserProfileAlternative
  \/ CallBadGetUserProfile
  \/ AfterUserBadGetUserProfile
  \/ AfterPostsBadGetUserProfile

SpecAsync == InitAsync /\ [][NextAsync]_vars


----------------------------------------------------------------------------
TypeOK ==
  /\ Len(heap) <= MaxChain + 1
  /\ cur \in Refs
  /\ Len(trace) <= MaxChain + 1

----------------------------------------------------------------------------
(* Vocabulary of the properties *)

Entries == 1..Len(trace)

Last == trace[Len(trace)]

\* entry i is a call of method op on a receiver of class c
CallOn(i, op, c) == trace[i].op = op /\ IsInstance(heap, trace[i].this, c)

\* the step just taken is a call of method op on cur, an instance of class c
StepOn(op, c) ==
  /\ trace' = Append(trace, Last')
  /\ Last'.op = op
  /\ Last'.this = cur
  /\ IsInstance(heap, cur, c)

IsResult(obj) ==
  \/ obj.cls = "Ok" /\ DOMAIN obj = {"cls", "value"}
  \/ obj.cls = "Err" /\ DOMAIN obj = {"cls", "error"}

----------------------------------------------------------------------------
\* C1: every Result on the heap, however it was produced, is in exactly one
\* variant: isOk() and isErr() answer differently on it, an Ok carries only a
\* value and an Err only an error, and repeated calls of a predicate on the
\* same Result give the same answer.
C1_ExactlyOneVariant ==
  /\ \A r \in Refs :
       /\ IsResult(heap[r])
       /\ isOk(heap, r).ret # isErr(heap, r).ret
       /\ isOk(heap, r).ret = (DOMAIN heap[r] = {"cls", "value"})
       /\ isErr(heap, r).ret = (DOMAIN heap[r] = {"cls", "error"})
  /\ \A i \in Entries :
       trace[i].op \in {"isOk", "isErr"} =>
         /\ trace[i].done = "return"
         /\ trace[i].ret \in BOOLEAN
         /\ trace[i].calls = <<>>
         /\ \A j \in Entries :
              (trace[j].op = trace[i].op /\ trace[j].this = trace[i].this)
                => trace[j].ret = trace[i].ret
  /\ \A i, j \in Entries :
       (trace[i].op = "isOk" /\ trace[j].op = "isErr" /\ trace[i].this = trace[j].this)
         => trace[i].ret # trace[j].ret

C1_Witness ==
  /\ \E r \in Refs : heap[r].cls = "Ok"
  /\ \E r \in Refs : heap[r].cls = "Err"
  /\ \E i \in Entries : trace[i].op \in {"map", "flatMap", "mapErr", "catch"}
                          /\ Len(trace[i].calls) = 1
  /\ \E i, j \in Entries :
       /\ i < j
       /\ trace[i].op = "isErr" /\ trace[j].op = "isErr"
       /\ trace[i].this = trace[j].this
       /\ trace[i].ret

----------------------------------------------------------------------------
\* A chain ok(v).flatMap(f1)...flatMap(fN): the first call is ok, every later
\* call is a flatMap on what the call before it returned.
FlatMapChain ==
  /\ trace[1].op = "ok"
  /\ \A i \in 2..Len(trace) :
       trace[i].op = "flatMap" /\ trace[i].this = trace[i-1].ret

Invoked(i) == Len(trace[i].calls) > 0

\* step i called its function and the function returned an Err
Failing(i) == Invoked(i) /\ IsInstance(heap, trace[i].ret, "Err")

\* C2: in a chain of flatMap calls from ok(v), the steps whose function is
\* invoked are exactly those up to and including the first one that returns
\* an Err; no later step is invoked and the chain's result is that first Err.
C2_ShortCircuit ==
  FlatMapChain =>
    \A i \in 2..Len(trace) :
      /\ Invoked(i) <=> (\A j \in 2..(i-1) : ~Failing(j))
      /\ Len(trace[i].calls) <= 1
      /\ Failing(i) => /\ cur = trace[i].ret
                       /\ \A k \in i..Len(trace) : trace[k].ret = trace[i].ret

C2_Witness ==
  /\ FlatMapChain
  /\ Len(trace) = 4
  /\ Invoked(2) /\ ~Failing(2)
  /\ Failing(3)
  /\ ~Invoked(4)
  /\ cur = trace[3].ret

----------------------------------------------------------------------------
\* C3: map on an Ok holding v returns an Ok holding fn(v) and calls fn once,
\* with v.
C3_MapOnOk ==
  \A i \in Entries :
    CallOn(i, "map", "Ok") =>
      /\ trace[i].done = "return"
      /\ trace[i].calls = <<Invoke(trace[i].arg, heap[trace[i].this].value)>>
      /\ heap[trace[i].ret] = Ok(CallFn(trace[i].arg, heap[trace[i].this].value))

C3_Witness ==
  \E i \in Entries :
    /\ CallOn(i, "map", "Ok")
    /\ trace[i].arg = "double"
    /\ heap[trace[i].this].value = 1
    /\ heap[trace[i].ret].value = 2

\* C4: map on an Err returns that same Err, its error untouched, and does
\* not call fn.
C4_MapOnErr ==
  [][StepOn("map", "Err") =>
       /\ Last'.done = "return"
       /\ Last'.ret = cur
       /\ cur' = cur
       /\ heap' = heap
       /\ Last'.calls = <<>>]_vars

C4_Witness ==
  /\ Len(trace) > 1
  /\ CallOn(Len(trace), "map", "Err")
  /\ Last.arg = "double"

\* C5: flatMap on an Ok holding v returns the very Result fn(v) returned:
\* nothing is allocated besides what fn allocated, and fn is called once.
C5_FlatMapOnOk ==
  [][StepOn("flatMap", "Ok") =>
       LET r == CallFlatFn(heap, Last'.arg, heap[cur].value)
       IN  /\ Last'.done = "return"
           /\ Len(heap') = Len(r.heap)
           /\ heap' = r.heap
           /\ Last'.ret = r.ret
           /\ cur' = r.ret
           /\ Last'.calls = <<Invoke(Last'.arg, heap[cur].value)>>]_vars

C5_Witness ==
  /\ \E i \in Entries : CallOn(i, "flatMap", "Ok") /\ IsInstance(heap, trace[i].ret, "Ok")
  /\ \E i \in Entries : CallOn(i, "flatMap", "Ok") /\ IsInstance(heap, trace[i].ret, "Err")

\* C6: flatMap on an Err returns that same Err, unchanged, and does not call
\* fn.
C6_FlatMapOnErr ==
  [][StepOn("flatMap", "Err") =>
       /\ Last'.done = "return"
       /\ Last'.ret = cur
       /\ cur' = cur
       /\ heap' = heap
       /\ Last'.calls = <<>>]_vars

C6_Witness ==
  /\ Len(trace) > 1
  /\ CallOn(Len(trace), "flatMap", "Err")
  /\ Last.arg = "okAdd3"

\* C7: unwrap on an Err holding e does not return; it throws e.
C7_UnwrapOnErr ==
  \A i \in Entries :
    CallOn(i, "unwrap", "Err") =>
      /\ trace[i].done = "throw"
      /\ trace[i].thrown = heap[trace[i].this].error

C7_Witness ==
  \E i \in Entries :
    /\ CallOn(i, "unwrap", "Err")
    /\ heap[trace[i].this].error = "Error: e2"

\* C8: unwrap on an Ok holding v returns v and does not throw.
C8_UnwrapOnOk ==
  \A i \in Entries :
    CallOn(i, "unwrap", "Ok") =>
      /\ trace[i].done = "return"
      /\ trace[i].ret = heap[trace[i].this].value

C8_Witness ==
  \E i \in Entries :
    /\ CallOn(i, "unwrap", "Ok")
    /\ trace[i].done = "return"
    /\ trace[i].ret = 4

\* C9: getOrElse(d) returns v on an Ok holding v and d on an Err, and throws
\* on neither.
C9_GetOrElse ==
  \A i \in Entries :
    trace[i].op = "getOrElse" =>
      /\ trace[i].done = "return"
      /\ trace[i].calls = <<>>
      /\ IsInstance(heap, trace[i].this, "Ok") => trace[i].ret = heap[trace[i].this].value
      /\ IsInstance(heap, trace[i].this, "Err") => trace[i].ret = trace[i].arg

C9_Witness ==
  /\ \E i \in Entries : CallOn(i, "getOrElse", "Ok") /\ trace[i].ret = 1
  /\ \E i \in Entries : CallOn(i, "getOrElse", "Err") /\ trace[i].ret = 42

\* C10: mapErr on an Err holding e returns an Err holding fn(e).
C10_MapErrOnErr ==
  \A i \in Entries :
    CallOn(i, "mapErr", "Err") =>
      /\ trace[i].done = "return"
      /\ heap[trace[i].ret] = Err(CallErrFn(trace[i].arg, heap[trace[i].this].error))

C10_Witness ==
  \E i \in Entries :
    /\ CallOn(i, "mapErr", "Err")
    /\ trace[i].arg = "prefix"
    /\ heap[trace[i].this].error = "error"
    /\ heap[trace[i].ret] = Err("Error: error")

----------------------------------------------------------------------------
\* C11: mapErr on an Ok returns that same Ok, its value untouched, and does
\* not call fn.
C11_MapErrOnOk ==
  [][StepOn("mapErr", "Ok") =>
       /\ Last'.done = "return"
       /\ Last'.ret = cur
       /\ cur' = cur
       /\ heap' = heap
       /\ Last'.calls = <<>>]_vars

C11_Witness ==
  /\ Len(trace) > 1
  /\ CallOn(Len(trace), "mapErr", "Ok")
  /\ Last.arg = "prefix"
  /\ Last.ret = Last.this

\* C12: catch on an Err holding e returns the very Result fn(e) returned, be
\* it an Ok or another Err; fn is called once, with e.
C12_CatchOnErr ==
  [][StepOn("catch", "Err") =>
       LET r == CallCatchFn(heap, Last'.arg, heap[cur].error)
       IN  /\ Last'.done = "return"
           /\ Len(heap') = Len(r.heap)
           /\ heap' = r.heap
           /\ Last'.ret = r.ret
           /\ cur' = r.ret
           /\ Last'.calls = <<Invoke(Last'.arg, heap[cur].error)>>]_vars

C12_Witness ==
  /\ \E i \in Entries : /\ CallOn(i, "catch", "Err")
                        /\ heap[trace[i].ret] = Ok(5)
  /\ \E i \in Entries : /\ CallOn(i, "catch", "Err")
                        /\ IsInstance(heap, trace[i].ret, "Err")
                        /\ heap[trace[i].ret].error # heap[trace[i].this].error

\* C13: catch on an Ok returns that same Ok, unchanged, and does not call fn.
C13_CatchOnOk ==
  [][StepOn("catch", "Ok") =>
       /\ Last'.done = "return"
       /\ Last'.ret = cur
       /\ cur' = cur
       /\ heap' = heap
       /\ Last'.calls = <<>>]_vars

C13_Witness ==
  /\ Len(trace) > 1
  /\ CallOn(Len(trace), "catch", "Ok")
  /\ Last.arg = "okLength"
  /\ Last.ret = Last.this

----------------------------------------------------------------------------
\* entry i is a call combineResults(r1, r2); r1 is recorded as this, r2 as arg
Combined(i) == trace[i].op = "combineResults"

BothOk(i) ==
  IsInstance(heap, trace[i].this, "Ok") /\ IsInstance(heap, trace[i].arg, "Ok")

\* C14: combineResults(r1, r2) returns an Ok exactly when r1 and r2 are both
\* Ok, and that Ok holds the pair of their values; when either is an Err the
\* result is an Err.
C14_CombineOk ==
  \A i \in Entries :
    Combined(i) =>
      /\ trace[i].done = "return"
      /\ trace[i].calls = <<>>
      /\ IsResult(heap[trace[i].ret])
      /\ BothOk(i) <=> IsInstance(heap, trace[i].ret, "Ok")
      /\ ~BothOk(i) <=> IsInstance(heap, trace[i].ret, "Err")
      /\ BothOk(i) =>
           heap[trace[i].ret] = Ok(<<heap[trace[i].this].value, heap[trace[i].arg].value>>)

C14_Witness ==
  /\ \E i \in Entries :
       /\ Combined(i) /\ BothOk(i)
       /\ IsInstance(heap, trace[i].ret, "Ok")
       /\ trace[i].ret \notin {trace[i].this, trace[i].arg}
  /\ \E j \in Entries :
       /\ Combined(j)
       /\ IsInstance(heap, trace[j].this, "Ok")
       /\ IsInstance(heap, trace[j].arg, "Err")
       /\ IsInstance(heap, trace[j].ret, "Err")

\* C15: combineResults reports the error of the leftmost Err argument: the
\* first argument's error when the first is an Err (whatever the second is),
\* the second's only when the first is an Ok.
C15_CombineLeftmostError ==
  \A i \in Entries :
    Combined(i) =>
      /\ IsInstance(heap, trace[i].this, "Err") =>
           /\ IsInstance(heap, trace[i].ret, "Err")
           /\ heap[trace[i].ret].error = heap[trace[i].this].error
      /\ (IsInstance(heap, trace[i].this, "Ok") /\ IsInstance(heap, trace[i].arg, "Err")) =>
           /\ IsInstance(heap, trace[i].ret, "Err")
           /\ heap[trace[i].ret].error = heap[trace[i].arg].error

C15_Witness ==
  \E i \in Entries :
    /\ Combined(i)
    /\ IsInstance(heap, trace[i].this, "Err")
    /\ IsInstance(heap, trace[i].arg, "Err")
    /\ heap[trace[i].this].error = "error"
    /\ heap[trace[i].arg].error = "e2"
    /\ heap[trace[i].ret].error = "error"

----------------------------------------------------------------------------
\* entry i is a call processResult(r, onOk, onErr); r is recorded as this,
\* <<onOk, onErr>> as arg
Processed(i) == trace[i].op = "processResult"

\* C16: processResult calls exactly one handler, once: onOk with the value
\* when the Result is an Ok, onErr with the error when it is an Err.
C16_ProcessResultOneHandler ==
  \A i \in Entries :
    Processed(i) =>
      /\ Len(trace[i].calls) = 1
      /\ IsInstance(heap, trace[i].this, "Ok") =>
           /\ trace[i].calls[1].fn = trace[i].arg[1]
           /\ trace[i].calls[1].arg = heap[trace[i].this].value
      /\ IsInstance(heap, trace[i].this, "Err") =>
           /\ trace[i].calls[1].fn = trace[i].arg[2]
           /\ trace[i].calls[1].arg = heap[trace[i].this].error

C16_Witness ==
  /\ \E i \in Entries :
       /\ Processed(i)
       /\ IsInstance(heap, trace[i].this, "Ok")
       /\ trace[i].calls = <<Invoke("onOk", 1)>>
  /\ \E j \in Entries :
       /\ Processed(j)
       /\ IsInstance(heap, trace[j].this, "Err")
       /\ trace[j].calls = <<Invoke("onErr", "error occurred")>>

\* C17 as stated: processResult returns the value its handler returned.
C17_ReturnsHandlerValue ==
  \A i \in Entries :
    Processed(i) =>
      /\ trace[i].done = "return"
      /\ Len(trace[i].calls) = 1
      /\ trace[i].ret = CallHandler(trace[i].calls[1].fn, trace[i].calls[1].arg)

\* C17 (amended): processResult returns nothing (undefined) on an Ok and on an
\* Err alike; what the handler it called returned is discarded.
C17_ReturnsUndefined ==
  \A i \in Entries :
    Processed(i) =>
      /\ trace[i].done = "return"
      /\ trace[i].ret = "undefined"

C17_Witness ==
  /\ \E i \in Entries :
       /\ Processed(i)
       /\ IsInstance(heap, trace[i].this, "Ok")
       /\ trace[i].calls = <<Invoke("showValue", 0)>>
       /\ CallHandler("showValue", 0) # "undefined"
       /\ trace[i].ret = "undefined"
  /\ \E j \in Entries :
       /\ Processed(j)
       /\ IsInstance(heap, trace[j].this, "Err")
       /\ trace[j].calls[1].fn = "showError"
       /\ trace[j].ret = "undefined"

----------------------------------------------------------------------------
\* C18: r.map(x => x) is equivalent to r, for an Ok and for an Err: same
\* variant, same payload.
C18_FunctorIdentity ==
  \A i \in Entries :
    (trace[i].op = "map" /\ trace[i].arg = "ident") =>
      /\ trace[i].done = "return"
      /\ heap[trace[i].ret] = heap[trace[i].this]

C18_Witness ==
  /\ \E i \in Entries :
       /\ CallOn(i, "map", "Ok") /\ trace[i].arg = "ident"
       /\ trace[i].ret # trace[i].this
       /\ heap[trace[i].ret] = Ok(1)
  /\ \E j \in Entries :
       /\ CallOn(j, "map", "Err") /\ trace[j].arg = "ident"
       /\ heap[trace[j].ret] = Err("odd")

\* entries i, j are r.map(f) and, on its result, .map(g)
MapThenMap(i, j) ==
  /\ i < j
  /\ trace[i].op = "map" /\ trace[j].op = "map"
  /\ trace[i].done = "return"
  /\ trace[j].this = trace[i].ret

\* C19: r.map(f).map(g) is equivalent to r.map(x => g(f(x))), for an Ok and
\* for an Err.
C19_FunctorComposition ==
  \A i, j \in Entries :
    MapThenMap(i, j) =>
      LET once == map(heap, trace[i].this, Compose(trace[i].arg, trace[j].arg))
      IN  /\ trace[j].done = "return"
          /\ once.done = "return"
          /\ heap[trace[j].ret] = once.heap[once.ret]

C19_Witness ==
  /\ \E i, j \in Entries :
       /\ MapThenMap(i, j)
       /\ IsInstance(heap, trace[i].this, "Ok")
       /\ trace[i].arg = "add3" /\ trace[j].arg = "double"
       /\ heap[trace[i].this] = Ok(1)
       /\ heap[trace[j].ret] = Ok(8)
       /\ heap[trace[j].ret] # Ok(CallFn(Compose("double", "add3"), 1))

\* C20: r.flatMap(ok) is equivalent to r, for an Ok and for an Err.
C20_MonadRightIdentity ==
  \A i \in Entries :
    (trace[i].op = "flatMap" /\ trace[i].arg = "okSame") =>
      /\ trace[i].done = "return"
      /\ heap[trace[i].ret] = heap[trace[i].this]

C20_Witness ==
  /\ \E i \in Entries :
       /\ CallOn(i, "flatMap", "Ok") /\ trace[i].arg = "okSame"
       /\ trace[i].ret # trace[i].this
       /\ heap[trace[i].ret] = Ok(0)
  /\ \E j \in Entries :
       /\ CallOn(j, "flatMap", "Err") /\ trace[j].arg = "okSame"
       /\ heap[trace[j].ret] = Err("error occurred")

----------------------------------------------------------------------------
\* every Result that exists keeps its class and payload over the step
Immutable ==
  /\ Len(heap') >= Len(heap)
  /\ \A r \in Refs : heap'[r] = heap[r]

\* the step just taken is a call of one of the chainable methods
Combinator ==
  /\ trace' = Append(trace, Last')
  /\ Last'.op \in {"map", "flatMap", "mapErr", "catch"}

\* C21 as stated: no call changes an existing Result, and a combinator
\* returns either a new Result or its receiver.
C21_NewOrReceiver ==
  [][/\ Immutable
     /\ Combinator => \/ Last'.ret = Last'.this
                      \/ Last'.ret \notin Refs]_vars

\* C21 (amended): no call changes an existing Result; map and mapErr return
\* a new Result or their receiver; flatMap and catch return their receiver
\* or the Result their callback returned, which may be one that existed
\* before; combineResults returns one of its arguments or a new Result.
C21_NeverMutated ==
  [][/\ Immutable
     /\ Combinator =>
          /\ Last'.done = "return"
          /\ Last'.ret \in 1..Len(heap')
          /\ \/ Last'.ret = Last'.this
             \/ Last'.ret \notin Refs
             \/ /\ Last'.op = "flatMap"
                /\ IsInstance(heap, cur, "Ok")
                /\ Last'.ret = CallFlatFn(heap, Last'.arg, heap[cur].value).ret
             \/ /\ Last'.op = "catch"
                /\ IsInstance(heap, cur, "Err")
                /\ Last'.ret = CallCatchFn(heap, Last'.arg, heap[cur].error).ret
     /\ (trace' = Append(trace, Last') /\ Last'.op = "combineResults") =>
          \/ Last'.ret \in {Last'.this, Last'.arg}
          \/ Last'.ret \notin Refs]_vars

C21_Witness ==
  /\ Len(heap) = 2
  /\ Len(trace) = 3
  /\ heap[1] = Err("error")
  /\ heap[2] = Ok(5)
  /\ trace[2].op = "catch" /\ trace[2].ret = 2
  /\ Last.op = "flatMap" /\ Last.arg = "theFirst"
  /\ Last.this = 2
  /\ Last.ret = 1

----------------------------------------------------------------------------
(* monad associativity *)

\* step j is a flatMap on what the flatMap of step i returned
FlatMapThenFlatMap(i, j) ==
  /\ i < j
  /\ trace[i].op = "flatMap" /\ trace[j].op = "flatMap"
  /\ trace[i].done = "return"
  /\ trace[j].this = trace[i].ret

\* the callback x => f(x).flatMap(g)
Nested(h, f, g, x) ==
  LET a == CallFlatFn(h, f, x)
      b == flatMap(a.heap, a.ret, g)
  IN  [b EXCEPT !.calls = <<Invoke(f, x)>> \o a.calls \o b.calls]

\* how many times fn is invoked in calls
Count(calls, fn) == Cardinality({k \in 1..Len(calls) : calls[k].fn = fn})

\* C28: r.flatMap(f).flatMap(g) is equivalent to
\* r.flatMap(x => f(x).flatMap(g)), for an Ok and for an Err, and the two
\* forms invoke f and g the same number of times.
C28_MonadAssociativity ==
  \A i, j \in Entries :
    FlatMapThenFlatMap(i, j) =>
      LET f == trace[i].arg
          g == trace[j].arg
          r == trace[i].this
          once == flatMapWith(heap, r, "nested",
                              [x \in Payloads(heap, r) |-> Nested(heap, f, g, x)])
          twice == trace[i].calls \o trace[j].calls
      IN  /\ trace[j].done = "return"
          /\ once.done = "return"
          /\ heap[trace[j].ret] = once.heap[once.ret]
          /\ \A fn \in {f, g} : Count(twice, fn) = Count(once.calls, fn)

C28_Witness ==
  /\ Len(trace) = 3
  /\ FlatMapThenFlatMap(2, 3)
  /\ heap[trace[2].this] = Ok(1)
  /\ trace[2].arg = "okAdd3" /\ trace[3].arg = "halve"
  /\ trace[2].calls = <<Invoke("okAdd3", 1)>>
  /\ trace[3].calls = <<Invoke("halve", 4)>>
  /\ heap[trace[3].ret] = Ok(2)

----------------------------------------------------------------------------
\* r1.flatMap(v1 => r2.map(v2 => [v1, v2]))
Chained(h, r1, r2) ==
  flatMapWith(h, r1, "withSecond",
              [v1 \in Payloads(h, r1) |->
                 mapWith(h, r2, "pair", [v2 \in Payloads(h, r2) |-> <<v1, v2>>])])

\* C29: combineResults(r1, r2) is equivalent to
\* r1.flatMap(v1 => r2.map(v2 => [v1, v2])): same variant and same payload,
\* whichever of r1 and r2 are Ok or Err.
C29_CombineIsFlatMapMap ==
  \A i \in Entries :
    Combined(i) =>
      LET chained == Chained(heap, trace[i].this, trace[i].arg)
      IN  /\ trace[i].done = "return"
          /\ chained.done = "return"
          /\ heap[trace[i].ret] = chained.heap[chained.ret]

C29_Witness ==
  /\ Len(trace) = 4
  /\ trace[1].op = "ok" /\ trace[1].arg = 0
  /\ trace[2].op = "err" /\ trace[2].arg = "error"
  /\ Combined(3) /\ trace[3].this = 1 /\ trace[3].arg = 1
  /\ heap[trace[3].ret] = Ok(<<0, 0>>)
  /\ Chained(heap, 1, 1).calls = <<Invoke("withSecond", 0), Invoke("pair", 0)>>
  /\ Combined(4) /\ trace[4].this = 2 /\ trace[4].arg = 1
  /\ trace[4].ret = 2
  /\ Chained(heap, 2, 1).ret = 2
  /\ Chained(heap, 2, 1).calls = <<>>

----------------------------------------------------------------------------
(* Vocabulary of the properties of the asynchronous functions *)

\* the calls of function fn, in flight or completed
CallsOf(fn) == {p \in Procs : procs[p].fn = fn}

\* where in the log of call c the function named fn was called
Pos(c, fn) == {k \in 1..Len(c.log) : c.log[k].fn = fn}

Completed(p) == procs[p].pc = "done"

\* C23: in every call of getUserProfile, fetchPosts is called only once the
\* call has resumed from awaiting fetchUser with an Ok; the profile is built
\* only once the promise of fetchPosts has settled with an Ok; and when
\* fetchUser gave an Err (the ValidationError of an empty id) fetchPosts is
\* never called, nothing more is awaited, and the call returns that very Err.
C23_OrderedShortCircuit ==
  \A p \in CallsOf("getUserProfile") :
    LET c == procs[p]
    IN  /\ Pos(c, "fetchUser") = {1}
        /\ \A k \in Pos(c, "fetchPosts") :
             /\ c.pc \in {"awaitThen", "done"}
             /\ IsInstance(heap, c.userResult, "Ok")
             /\ k > 1
        /\ \A k \in Pos(c, "profile") :
             /\ c.pc = "done"
             /\ IsInstance(heap, c.postsResult, "Ok")
             /\ \E j \in Pos(c, "fetchPosts") : j < k
        /\ IsInstance(heap, c.userResult, "Err") =>
             /\ Pos(c, "fetchPosts") = {}
             /\ c.pc \in {"awaitUser", "done"}
             /\ c.pc = "done" => c.done = "return" /\ c.ret = c.userResult
        /\ c.userId = "" =>
             heap[c.userResult] = Err(AppError("ValidationError", "User ID required"))

C23_Witness ==
  /\ procs[1].fn = "getUserProfile" /\ procs[1].userId = ""
  /\ Completed(1)
  /\ procs[1].ret = procs[1].userResult
  /\ procs[1].log = <<Invoke("fetchUser", "")>>
  /\ procs[2].fn = "getUserProfile" /\ procs[2].userId = "123"
  /\ Completed(2)
  /\ Len(procs[2].log) = 4
  /\ procs[2].log[3] = Invoke("fetchPosts", "123")
  /\ procs[2].log[4].fn = "profile"

----------------------------------------------------------------------------
\* a call run alone, from an empty heap, to its completion
RECURSIVE Run(_, _)
Run(h, c) == IF c.pc = "done" THEN Outcome(h, c) ELSE Run(Step(h, c).heap, Step(h, c).call)

Solo(fn, userId) == Run(<<>>, Start(fn, userId))

\* what a completed call produced: how it completed, and the class and
\* payload of the Result returned (the value itself for bad.ts)
Produced(h, c) ==
  [done |-> c.done,
   value |-> IF c.done = "throw" THEN c.thrown
             ELSE IF c.fn = "bad.getUserProfile" THEN c.ret
             ELSE h[c.ret],
   log |-> [k \in 1..Len(c.log) |-> c.log[k].fn]]

\* C24: whatever other calls are in flight and however their steps
\* interleave, a completed call has produced what the same call produces
\* when it runs alone: same completion, same Result (class and payload),
\* same calls made, in the same order.
C24_NoInterference ==
  \A p \in Procs :
    Completed(p) =>
      LET alone == Solo(procs[p].fn, procs[p].userId)
      IN  Produced(heap, procs[p]) = Produced(alone.heap, alone.call)

C24_Witness ==
  /\ procs[1].fn = "getUserProfile" /\ procs[1].userId = "123"
  /\ procs[2].fn = "getUserProfile" /\ procs[2].userId = "456"
  /\ Completed(1) /\ Completed(2)
  /\ procs[1].userResult < procs[2].userResult
  /\ procs[2].postsResult < procs[1].postsResult
  /\ procs[1].ret < procs[2].ret
  /\ heap[procs[1].ret].value.user.id = "123"
  /\ heap[procs[2].ret].value.user.id = "456"

----------------------------------------------------------------------------
\* C25: in every call of getUserProfileAlternative, each unwrap() is made
\* on an Ok; the call never throws, and when it completes it has returned a
\* Result, for the empty user id as for the others.
C25_UnwrapOnlyOnOk ==
  \A p \in CallsOf("getUserProfileAlternative") :
    LET c == procs[p]
    IN  /\ \A k \in Pos(c, "unwrap") : IsInstance(heap, c.log[k].arg, "Ok")
        /\ c.done # "throw"
        /\ Completed(p) =>
             /\ c.done = "return"
             /\ c.ret \in Refs
             /\ IsResult(heap[c.ret])

C25_Witness ==
  /\ procs[1].fn = "getUserProfileAlternative" /\ procs[1].userId = ""
  /\ Completed(1)
  /\ Pos(procs[1], "unwrap") = {}
  /\ IsInstance(heap, procs[1].ret, "Err")
  /\ procs[2].fn = "getUserProfileAlternative" /\ procs[2].userId = "456"
  /\ Completed(2)
  /\ Cardinality(Pos(procs[2], "unwrap")) = 3
  /\ IsInstance(heap, procs[2].ret, "Ok")

----------------------------------------------------------------------------
\* p and q are completed calls of f and g with the same user id
SameCall(p, f, q, g) ==
  /\ procs[p].fn = f /\ procs[q].fn = g
  /\ procs[p].userId = procs[q].userId
  /\ Completed(p) /\ Completed(q)

\* C26: for every user id, the getUserProfile of bad.ts returns an AppError
\* exactly when the getUserProfile of good.ts returns an Err, and that Err
\* holds the same type and message; otherwise good.ts returns an Ok holding
\* the profile (user, posts, postCount) bad.ts returns.
C26_RefactoringKeepsBehaviour ==
  \A p, q \in Procs :
    SameCall(p, "getUserProfile", q, "bad.getUserProfile") =>
      LET good == heap[procs[p].ret]
          bad == procs[q].ret
      IN  /\ procs[p].done = "return" /\ procs[q].done = "return"
          /\ isError(bad) <=> good.cls = "Err"
          /\ ~isError(bad) <=> good.cls = "Ok"
          /\ isError(bad) => good.error = bad
          /\ ~isError(bad) => /\ DOMAIN bad = {"user", "posts", "postCount"}
                              /\ good.value = bad

C26_Witness ==
  /\ SameCall(1, "getUserProfile", 2, "bad.getUserProfile")
  /\ procs[1].userId = "456"
  /\ ~isError(procs[2].ret)
  /\ procs[2].ret.user.id = "456"
  /\ procs[2].ret.postCount = 2
  /\ heap[procs[1].ret] = Ok(procs[2].ret)

\* C27: an Ok returned by getUserProfile(userId) holds a profile whose user
\* has the id asked for, whose list of posts is not empty, and whose
\* postCount is the length of that list.
C27_ProfileConsistent ==
  \A p \in CallsOf("getUserProfile") :
    (Completed(p) /\ IsInstance(heap, procs[p].ret, "Ok")) =>
      LET profile == heap[procs[p].ret].value
      IN  /\ profile.user.id = procs[p].userId
          /\ profile.posts.length > 0
          /\ profile.posts.length = Len(profile.posts.items)
          /\ profile.postCount = profile.posts.length

C27_Witness ==
  /\ procs[1].fn = "getUserProfile" /\ procs[1].userId = "123"
  /\ procs[2].fn = "getUserProfile" /\ procs[2].userId = "456"
  /\ Completed(1) /\ Completed(2)
  /\ IsInstance(heap, procs[2].ret, "Ok")
  /\ heap[procs[2].ret].value.user = [id |-> "456", name |-> "John Doe"]
  /\ heap[procs[2].ret].value.postCount = 2
  /\ heap[procs[2].ret].value.posts.items[2].title = "Second post"

\* C30: for every user id, getUserProfile and getUserProfileAlternative
\* return Results of the same variant holding the same profile or the same
\* error.
C30_AlternativeEquivalent ==
  \A p, q \in Procs :
    SameCall(p, "getUserProfile", q, "getUserProfileAlternative") =>
      /\ procs[p].done = "return" /\ procs[q].done = "return"
      /\ heap[procs[p].ret] = heap[procs[q].ret]

C30_Witness ==
  /\ SameCall(1, "getUserProfile", 2, "getUserProfileAlternative")
  /\ procs[1].userId = "123"
  /\ procs[1].ret # procs[2].ret
  /\ IsInstance(heap, procs[2].ret, "Ok")
  /\ heap[procs[2].ret].value.postCount = 2
  /\ Pos(procs[2], "unwrap") # {}
  /\ Pos(procs[1], "profile") # {}

====
